---- MODULE Spec2Model ----
(***************************************************************************)
(* Session lifecycle controller of progressive_ml_dev/cli.py               *)
(* (class ProgressiveMLCLI): one named tmux session hosting a Python       *)
(* interpreter, a JSON metadata file per session name, and controller      *)
(* instances that hold an in-memory copy of the paused flag and of the     *)
(* virtual-environment path.                                               *)
(*                                                                         *)
(* Every controller method is an operator from a world record (the shared  *)
(* tmux/file state, the instances' fields and the list of tmux calls the   *)
(* running operation has issued) to the world after the method returned;   *)
(* an action applies one public method to the current state.               *)
(***************************************************************************)
EXTENDS Integers, Sequences, FiniteSets, TLC

VARIABLES
    tmux_session,   \* TRUE iff tmux has a session named session_name
    scrollback,     \* command lines the session's interpreter received (recent history)
    session_file,   \* /tmp/claude_session/<session_name>.json
    paused,         \* self.paused of each controller instance
    venv_path,      \* self.venv_path of each controller instance
    now,            \* time.time(), advanced by each session creation
    pause_held,     \* history: a pause() returned True and no resume() ran since, same session
    last,           \* observation of the last operation: what it was called on, what it did
    proc,           \* concurrent command-line processes: operation, position in it, locals
    writes,         \* history: the metadata writes of the processes now running, in order
    repl            \* ClaudeREPL._get_best_repl: the outcomes of its probes and what it returned

vars == <<tmux_session, scrollback, session_file, paused, venv_path, now, pause_held, last,
          proc, writes, repl>>

----------------------------------------------------------------------------
(* Bounds and the finite input sets.                                       *)

MaxTime == 2
HistoryLimit == 2

(* "obj" is a long-lived controller object (as ProgressiveMLCLI.test uses   *)
(* one); "cli" stands for the instance main() builds for one invocation   *)
(* of the command-line tool and drops when the process exits.              *)
Inst == {"obj", "cli"}
Commands == {"x=1", "exit()"}
LineCounts == {1, 10}
None == "None"
Venvs == {"/venv"}
session_name == "claude"
PermOutcomes == {"ok", "timeout", "denied"}

(* Python's exit() typed into the interpreter ends it, and with it the     *)
(* session's only window.                                                   *)
ExitCommand == "exit()"

(* os.getcwd() of the process that owns the instance.                      *)
Cwd(self) == IF self = "obj" THEN "/work/a" ELSE "/work/b"

----------------------------------------------------------------------------
(* Python dicts: functions from a set of string keys.                      *)

EmptyDict == [k \in {} |-> TRUE]
Has(d, k) == k \in DOMAIN d
Get(d, k, default) == IF k \in DOMAIN d THEN d[k] ELSE default
Put(d, k, v) == [x \in DOMAIN d \cup {k} |-> IF x = k THEN v ELSE d[x]]

NoFile == [exists |-> FALSE, malformed |-> FALSE, info |-> EmptyDict]

----------------------------------------------------------------------------
(* The world an operation runs in.                                         *)

World ==
    [tmux_session |-> tmux_session, scrollback |-> scrollback,
     session_file |-> session_file, paused |-> paused, venv_path |-> venv_path,
     now |-> now, calls |-> <<>>, ret |-> None, out |-> <<>>,
     report |-> EmptyDict]

(* What the environment decides during one operation: whether the venv     *)
(* directory and its bin/python exist, whether tmux can create the         *)
(* session, whether the interpreter acts on exit(), which set-option calls *)
(* fail, how the list-sessions probe ends, and whether the tmux server has *)
(* stopped answering (a tmux invocation then never exits).                 *)
ColorFailures == {{}, {1}, {2, 13}, 1..13}
Envs ==
    [venv_exists : BOOLEAN, python_exists : BOOLEAN, create_ok : BOOLEAN,
     exits : BOOLEAN, color_fail : ColorFailures, perm : PermOutcomes,
     hangs : BOOLEAN]

----------------------------------------------------------------------------
(* The terminal: what capture-pane prints for a session whose interpreter  *)
(* received the commands sb. A line is a tuple of words, <<>> a blank one. *)

LastN(s, n) == IF Len(s) <= n THEN s ELSE SubSeq(s, Len(s) - n + 1, Len(s))

PaneText(sb) ==
    [i \in 1..Len(sb) |-> <<">>>", sb[i]>>] \o << <<">>>">>, <<>> >>

RECURSIVE LStrip(_)
LStrip(text) ==
    IF text # <<>> /\ Head(text) = <<>> THEN LStrip(Tail(text)) ELSE text

RECURSIVE RStrip(_)
RStrip(text) ==
    IF text # <<>> /\ text[Len(text)] = <<>>
    THEN RStrip(SubSeq(text, 1, Len(text) - 1)) ELSE text

(* str.strip() on the captured text.                                       *)
Strip(text) == RStrip(LStrip(text))

----------------------------------------------------------------------------
(* Multiplexer adapter.                                                    *)

(* tmux itself: the effect of one subcommand on the session table and the  *)
(* pane, and whether it exits 0.                                           *)
Tmux(w, cmd, env) ==
    CASE cmd[1] = "has-session" ->
            [ok |-> w.tmux_session, w |-> w, stdout |-> <<>>]
      [] cmd[1] = "new-session" ->
            IF ~w.tmux_session /\ env.create_ok
            THEN [ok |-> TRUE, stdout |-> <<>>,
                  w |-> [w EXCEPT !.tmux_session = TRUE, !.scrollback = <<>>]]
            ELSE [ok |-> FALSE, w |-> w, stdout |-> <<>>]
      [] cmd[1] = "send-keys" ->
            IF w.tmux_session
            THEN [ok |-> TRUE, stdout |-> <<>>,
                  w |-> [w EXCEPT
                           !.scrollback = LastN(Append(@, cmd[3]), HistoryLimit),
                           !.tmux_session = ~(cmd[3] = ExitCommand /\ env.exits)]]
            ELSE [ok |-> FALSE, w |-> w, stdout |-> <<>>]
      [] cmd[1] = "capture-pane" ->
            IF w.tmux_session
            THEN [ok |-> TRUE, w |-> w, stdout |-> LastN(PaneText(w.scrollback), cmd[3])]
            ELSE [ok |-> FALSE, w |-> w, stdout |-> <<>>]
      [] cmd[1] = "kill-session" ->
            [ok |-> w.tmux_session, stdout |-> <<>>,
             w |-> [w EXCEPT !.tmux_session = FALSE]]
      [] cmd[1] = "set-option" ->
            [ok |-> w.tmux_session /\ cmd[3] \notin env.color_fail,
             w |-> w, stdout |-> <<>>]

(* _run_tmux: run the subcommand; (stdout.strip(), stderr) when it exits 0 *)
(* and (None, stderr) when it does not. Every call is logged with its      *)
(* outcome. subprocess.run is given no timeout: when tmux never exits the  *)
(* call never returns and the operation is blocked in it for good (ret     *)
(* "blocked"; nothing after that point of the operation takes place).      *)
_run_tmux(w, cmd, env) ==
    IF w.ret = "blocked"
    THEN [w |-> w, stdout_is_None |-> TRUE, stdout |-> <<>>]
    ELSE IF env.hangs
    THEN [w |-> [w EXCEPT !.calls = Append(@, [cmd |-> cmd, ok |-> FALSE]),
                          !.ret = "blocked"],
          stdout_is_None |-> TRUE, stdout |-> <<>>]
    ELSE LET r == Tmux(w, cmd, env)
         IN  [w |-> [r.w EXCEPT !.calls = Append(@, [cmd |-> cmd, ok |-> r.ok])],
              stdout_is_None |-> ~r.ok,
              stdout |-> Strip(r.stdout)]

_session_exists(w, env) ==
    LET r == _run_tmux(w, <<"has-session", session_name>>, env)
    IN  [w |-> r.w, val |-> ~r.stdout_is_None]

----------------------------------------------------------------------------
(* Session metadata store.                                                 *)

_save_session_info(w, self, info) ==
    LET i1 == Put(info, "paused", w.paused[self])
        i2 == IF w.venv_path[self] # None
              THEN Put(i1, "venv_path", w.venv_path[self]) ELSE i1
    IN  [w EXCEPT !.session_file = [exists |-> TRUE, malformed |-> FALSE, info |-> i2]]

(* json.load raises on a malformed file; nothing in the class catches it.  *)
_load_session_info(w, self) ==
    IF w.session_file.exists
    THEN IF w.session_file.malformed
         THEN [w |-> w, raised |-> TRUE, val |-> EmptyDict]
         ELSE LET info == w.session_file.info
                  w1 == [w EXCEPT !.paused[self] = Get(info, "paused", FALSE)]
                  w2 == IF Has(info, "venv_path")
                        THEN [w1 EXCEPT !.venv_path[self] = info["venv_path"]] ELSE w1
              IN  [w |-> w2, raised |-> FALSE, val |-> info]
    ELSE [w |-> w, raised |-> FALSE, val |-> EmptyDict]

----------------------------------------------------------------------------
(* Session lifecycle controller.                                           *)

(* A method returns v, unless it is blocked in a tmux call.                *)
Ret(w, v) == IF w.ret = "blocked" THEN w ELSE [w EXCEPT !.ret = v]
Logged(w, cmd, ok) == [w EXCEPT !.calls = Append(@, [cmd |-> cmd, ok |-> ok])]

(* __init__: a fresh instance, as every CLI invocation builds one.         *)
__init__(w, self, venv) ==
    [w EXCEPT !.paused[self] = FALSE, !.venv_path[self] = venv]

(* _ensure_tmux_permissions as it would be if it issued the kill-session   *)
(* of the scratch session whether or not it had created it.                *)
_ensure_tmux_permissions_killing_anyway(w, env) ==
    CASE env.perm = "ok" ->
            Logged(w, <<"list-sessions">>, TRUE)
      [] env.perm = "timeout" ->
            Logged(Logged(Logged(w, <<"list-sessions">>, FALSE),
                          <<"new-session", "temp_permission_check", "echo">>, TRUE),
                   <<"kill-session", "temp_permission_check">>, TRUE)
      [] env.perm = "denied" ->
            Logged(Logged(Logged(w, <<"list-sessions">>, FALSE),
                          <<"new-session", "temp_permission_check", "echo">>, FALSE),
                   <<"kill-session", "temp_permission_check">>, TRUE)

(* _ensure_tmux_permissions: list-sessions within 5 s, else a throwaway    *)
(* session is created and killed. It touches no session named              *)
(* session_name; start only prints a warning on False.                     *)
_ensure_tmux_permissions(w, env) ==
    CASE env.perm = "ok" ->
            Logged(w, <<"list-sessions">>, TRUE)
      [] env.perm = "timeout" ->
            Logged(Logged(Logged(w, <<"list-sessions">>, FALSE),
                          <<"new-session", "temp_permission_check", "echo">>, TRUE),
                   <<"kill-session", "temp_permission_check">>, TRUE)
      [] env.perm = "denied" ->
            Logged(Logged(w, <<"list-sessions">>, FALSE),
                   <<"new-session", "temp_permission_check", "echo">>, FALSE)

NColors == 13

RECURSIVE ApplyColors(_, _, _)
(* The loop of _apply_tmux_colors as it would be if the first set-option   *)
(* that fails ended it.                                                    *)
ApplyColors_stopping(w, k, env) ==
    IF k > NColors THEN w
    ELSE LET r == _run_tmux(w, <<"set-option", session_name, k>>, env)
         IN  IF r.stdout_is_None THEN r.w ELSE ApplyColors(r.w, k + 1, env)

ApplyColors(w, k, env) ==
    IF k > NColors THEN w
    ELSE ApplyColors(_run_tmux(w, <<"set-option", session_name, k>>, env).w, k + 1, env)

(* _apply_tmux_colors: every set-option of the palette, failures skipped.  *)
_apply_tmux_colors(w, env) == ApplyColors(w, 1, env)

(* start as it would be if it wrote the metadata record before looking at  *)
(* the outcome of new-session.                                             *)
start_saving_first(w, self, venv_arg, env) ==
    LET w1 == IF venv_arg # None THEN [w EXCEPT !.venv_path[self] = venv_arg] ELSE w
        w2 == _ensure_tmux_permissions(w1, env)
        e  == _session_exists(w2, env)
    IN  IF e.val
        THEN LET l == _load_session_info(e.w, self)
             IN  IF l.raised THEN Ret(l.w, "raise") ELSE Ret(l.w, "True")
        ELSE IF e.w.venv_path[self] # None /\ ~env.venv_exists
        THEN Ret(e.w, "False")
        ELSE IF e.w.venv_path[self] # None /\ ~env.python_exists
        THEN Ret(e.w, "False")
        ELSE LET python_cmd == IF e.w.venv_path[self] # None
                               THEN <<e.w.venv_path[self], "bin", "python">>
                               ELSE <<"python3">>
                 r == _run_tmux(e.w, <<"new-session", session_name, python_cmd>>, env)
                 session_info ==
                     [session_name |-> session_name,
                      created_at |-> r.w.now,
                      working_dir |-> Cwd(self),
                      status |-> "active"]
                 s == _save_session_info(r.w, self, session_info)
             IN  IF r.stdout_is_None
                 THEN Ret([s EXCEPT !.now = @ + 1], "False")
                 ELSE Ret(_apply_tmux_colors([s EXCEPT !.now = @ + 1], env), "True")

(* start as it would be if a missing virtual environment, or one without   *)
(* bin/python, made it fall back to python3.                               *)
start_falling_back(w, self, venv_arg, env) ==
    LET w1 == IF venv_arg # None THEN [w EXCEPT !.venv_path[self] = venv_arg] ELSE w
        w2 == _ensure_tmux_permissions(w1, env)
        e  == _session_exists(w2, env)
    IN  IF e.val
        THEN LET l == _load_session_info(e.w, self)
             IN  IF l.raised THEN Ret(l.w, "raise") ELSE Ret(l.w, "True")
        ELSE LET python_cmd == IF e.w.venv_path[self] # None
                                  /\ env.venv_exists /\ env.python_exists
                               THEN <<e.w.venv_path[self], "bin", "python">>
                               ELSE <<"python3">>
                 r == _run_tmux(e.w, <<"new-session", session_name, python_cmd>>, env)
             IN  IF r.stdout_is_None
                 THEN Ret(r.w, "False")
                 ELSE LET c == _apply_tmux_colors(r.w, env)
                          session_info ==
                              [session_name |-> session_name,
                               created_at |-> c.now,
                               working_dir |-> Cwd(self),
                               status |-> "active"]
                          s == _save_session_info(c, self, session_info)
                      IN  Ret([s EXCEPT !.now = @ + 1], "True")

start(w, self, venv_arg, env) ==
    LET w1 == IF venv_arg # None THEN [w EXCEPT !.venv_path[self] = venv_arg] ELSE w
        w2 == _ensure_tmux_permissions(w1, env)
        e  == _session_exists(w2, env)
    IN  IF e.val
        THEN LET l == _load_session_info(e.w, self)
             IN  IF l.raised THEN Ret(l.w, "raise") ELSE Ret(l.w, "True")
        ELSE IF e.w.venv_path[self] # None /\ ~env.venv_exists
        THEN Ret(e.w, "False")
        ELSE IF e.w.venv_path[self] # None /\ ~env.python_exists
        THEN Ret(e.w, "False")
        ELSE LET python_cmd == IF e.w.venv_path[self] # None
                               THEN <<e.w.venv_path[self], "bin", "python">>
                               ELSE <<"python3">>
                 r == _run_tmux(e.w, <<"new-session", session_name, python_cmd>>, env)
             IN  IF r.stdout_is_None
                 THEN Ret(r.w, "False")
                 ELSE LET c == _apply_tmux_colors(r.w, env)
                          session_info ==
                              [session_name |-> session_name,
                               created_at |-> c.now,
                               working_dir |-> Cwd(self),
                               status |-> "active"]
                          s == _save_session_info(c, self, session_info)
                      IN  Ret([s EXCEPT !.now = @ + 1], "True")

(* send as it would be if it typed a print() line ahead of every command,  *)
(* as ClaudeREPL.send does.                                                *)
send_with_spacer(w, self, command, env) ==
    LET e == _session_exists(w, env)
    IN  IF ~e.val
        THEN Ret(e.w, "False")
        ELSE LET l == _load_session_info(e.w, self)
             IN  IF l.raised
                 THEN Ret(l.w, "raise")
                 ELSE IF Get(l.val, "paused", FALSE)
                 THEN Ret(l.w, "False")
                 ELSE LET p == _run_tmux(l.w, <<"send-keys", session_name, "print()", "Enter">>, env)
                          r == _run_tmux(p.w, <<"send-keys", session_name, command, "Enter">>, env)
                      IN  IF r.stdout_is_None THEN Ret(r.w, "False") ELSE Ret(r.w, "True")

(* send as it would be if existence were read off the metadata file and    *)
(* not asked of tmux.                                                      *)
send_trusting_metadata(w, self, command, env) ==
    IF ~w.session_file.exists
    THEN Ret(w, "False")
    ELSE LET l == _load_session_info(w, self)
         IN  IF l.raised
             THEN Ret(l.w, "raise")
             ELSE IF Get(l.val, "paused", FALSE)
             THEN Ret(l.w, "False")
             ELSE LET r == _run_tmux(l.w, <<"send-keys", session_name, command, "Enter">>, env)
                  IN  IF r.stdout_is_None THEN Ret(r.w, "False") ELSE Ret(r.w, "True")

send(w, self, command, env) ==
    LET e == _session_exists(w, env)
    IN  IF ~e.val
        THEN Ret(e.w, "False")
        ELSE LET l == _load_session_info(e.w, self)
             IN  IF l.raised
                 THEN Ret(l.w, "raise")
                 ELSE IF Get(l.val, "paused", FALSE)
                 THEN Ret(l.w, "False")
                 ELSE LET r == _run_tmux(l.w, <<"send-keys", session_name, command, "Enter">>, env)
                      IN  IF r.stdout_is_None THEN Ret(r.w, "False") ELSE Ret(r.w, "True")

(* ClaudeREPL.send (test/claude_repl.py): no pause gate; a print() line is *)
(* typed ahead of the command and the outcome of that first call ignored.  *)
ClaudeREPL_send(w, command, env) ==
    LET e == _session_exists(w, env)
    IN  IF ~e.val
        THEN Ret(e.w, "False")
        ELSE LET p == _run_tmux(e.w, <<"send-keys", session_name, "print()", "Enter">>, env)
                 r == _run_tmux(p.w, <<"send-keys", session_name, command, "Enter">>, env)
             IN  IF r.stdout_is_None THEN Ret(r.w, "False") ELSE Ret(r.w, "True")

(* read returns text: ret is "str" and out the text ("" is <<>>).          *)
read(w, lines, env) ==
    LET e == _session_exists(w, env)
    IN  IF ~e.val
        THEN [Ret(e.w, "str") EXCEPT !.out = <<>>]
        ELSE LET r == _run_tmux(e.w, <<"capture-pane", session_name, lines>>, env)
             IN  IF r.stdout_is_None
                 THEN [Ret(r.w, "str") EXCEPT !.out = <<>>]
                 ELSE [Ret(r.w, "str") EXCEPT !.out = r.stdout]

(* time.ctime: the printed local time of a timestamp, to the second.       *)
ctime(t) == <<"ctime", t>>

status(w, self, env) ==
    LET e == _session_exists(w, env)
    IN  IF ~e.val
        THEN Ret(e.w, "False")
        ELSE LET l == _load_session_info(e.w, self)
             IN  IF l.raised
                 THEN Ret(l.w, "raise")
                 ELSE LET shown == [k \in DOMAIN l.val \cap {"created_at", "working_dir"}
                                       |-> IF k = "created_at"
                                           THEN ctime(l.val[k]) ELSE l.val[k]]
                      IN  Ret([read(l.w, 10, env) EXCEPT !.report = shown], "True")

attach(w, env) ==
    LET e == _session_exists(w, env)
    IN  IF ~e.val THEN Ret(e.w, "False") ELSE Ret(e.w, "True")

(* pause as it would be if it also suspended the interpreter by typing ^Z  *)
(* into the session.                                                       *)
pause_suspending(w, self, env) ==
    LET e == _session_exists(w, env)
    IN  IF ~e.val
        THEN Ret(e.w, "False")
        ELSE LET w1 == [e.w EXCEPT !.paused[self] = TRUE]
                 l == _load_session_info(w1, self)
             IN  IF l.raised
                 THEN Ret(l.w, "raise")
                 ELSE LET z == _run_tmux(l.w, <<"send-keys", session_name, "C-z">>, env)
                      IN  Ret(_save_session_info(z.w, self, Put(l.val, "paused", TRUE)), "True")

(* pause as it would be if it did not ask tmux whether the session exists. *)
pause_unchecked(w, self, env) ==
    LET w1 == [w EXCEPT !.paused[self] = TRUE]
        l == _load_session_info(w1, self)
    IN  IF l.raised
        THEN Ret(l.w, "raise")
        ELSE Ret(_save_session_info(l.w, self, Put(l.val, "paused", TRUE)), "True")

(* pause as it would be if it wrote a record holding the flag alone.       *)
pause_dropping_record(w, self, env) ==
    LET e == _session_exists(w, env)
    IN  IF ~e.val
        THEN Ret(e.w, "False")
        ELSE LET w1 == [e.w EXCEPT !.paused[self] = TRUE]
                 l == _load_session_info(w1, self)
             IN  IF l.raised
                 THEN Ret(l.w, "raise")
                 ELSE Ret(_save_session_info(l.w, self, Put(EmptyDict, "paused", TRUE)), "True")

pause(w, self, env) ==
    LET e == _session_exists(w, env)
    IN  IF ~e.val
        THEN Ret(e.w, "False")
        ELSE LET w1 == [e.w EXCEPT !.paused[self] = TRUE]
                 l == _load_session_info(w1, self)
             IN  IF l.raised
                 THEN Ret(l.w, "raise")
                 ELSE Ret(_save_session_info(l.w, self, Put(l.val, "paused", TRUE)), "True")

resume(w, self, env) ==
    LET e == _session_exists(w, env)
    IN  IF ~e.val
        THEN Ret(e.w, "False")
        ELSE LET w1 == [e.w EXCEPT !.paused[self] = FALSE]
                 l == _load_session_info(w1, self)
             IN  IF l.raised
                 THEN Ret(l.w, "raise")
                 ELSE Ret(_save_session_info(l.w, self, Put(l.val, "paused", FALSE)), "True")

(* force_send as it would be if overriding the pause also lifted it in the *)
(* metadata file.                                                          *)
force_send_lifting_pause(w, command, env) ==
    LET e == _session_exists(w, env)
    IN  IF ~e.val
        THEN Ret(e.w, "False")
        ELSE LET r == _run_tmux(e.w, <<"send-keys", session_name, command, "Enter">>, env)
                 f == r.w.session_file
                 u == IF f.exists /\ ~f.malformed
                      THEN [r.w EXCEPT !.session_file.info = Put(@, "paused", FALSE)]
                      ELSE r.w
             IN  IF r.stdout_is_None THEN Ret(r.w, "False") ELSE Ret(u, "True")

(* force_send as it would be if the pause gate applied to it too.          *)
force_send_gated(w, command, env) ==
    LET e == _session_exists(w, env)
    IN  IF ~e.val
        THEN Ret(e.w, "False")
        ELSE IF e.w.session_file.exists /\ ~e.w.session_file.malformed
                /\ Get(e.w.session_file.info, "paused", FALSE)
        THEN Ret(e.w, "False")
        ELSE LET r == _run_tmux(e.w, <<"send-keys", session_name, command, "Enter">>, env)
             IN  IF r.stdout_is_None THEN Ret(r.w, "False") ELSE Ret(r.w, "True")

force_send(w, command, env) ==
    LET e == _session_exists(w, env)
    IN  IF ~e.val
        THEN Ret(e.w, "False")
        ELSE LET r == _run_tmux(e.w, <<"send-keys", session_name, command, "Enter">>, env)
             IN  IF r.stdout_is_None THEN Ret(r.w, "False") ELSE Ret(r.w, "True")

(* stop as it would be if a failed kill-session made it give up: no        *)
(* unlink, False returned.                                                 *)
stop_checking_kill(w, self, env) ==
    LET e == _session_exists(w, env)
    IN  IF ~e.val
        THEN Ret(e.w, "True")
        ELSE LET s == send(e.w, self, ExitCommand, env)
             IN  IF s.ret = "raise"
                 THEN s
                 ELSE LET k == _run_tmux(s, <<"kill-session", session_name>>, env)
                          u == IF k.w.session_file.exists
                               THEN [k.w EXCEPT !.session_file = NoFile] ELSE k.w
                      IN  IF k.stdout_is_None THEN Ret(k.w, "False") ELSE Ret(u, "True")

(* stop as it would be if it relied on exit() and issued kill-session only *)
(* when the exit command could not be sent.                                *)
stop_trusting_exit(w, self, env) ==
    LET e == _session_exists(w, env)
    IN  IF ~e.val
        THEN Ret(e.w, "True")
        ELSE LET s == send(e.w, self, ExitCommand, env)
             IN  IF s.ret = "raise"
                 THEN s
                 ELSE LET k == IF s.ret = "True" THEN s
                               ELSE _run_tmux(s, <<"kill-session", session_name>>, env).w
                          u == IF k.session_file.exists
                               THEN [k EXCEPT !.session_file = NoFile] ELSE k
                      IN  Ret(u, "True")

(* stop as it would be if its exit command went through the forced path.   *)
stop_forcing_exit(w, self, env) ==
    LET e == _session_exists(w, env)
    IN  IF ~e.val
        THEN Ret(e.w, "True")
        ELSE LET s == force_send(e.w, ExitCommand, env)
                 k == _run_tmux(s, <<"kill-session", session_name>>, env)
                 u == IF k.w.session_file.exists
                      THEN [k.w EXCEPT !.session_file = NoFile] ELSE k.w
             IN  Ret(u, "True")

stop(w, self, env) ==
    LET e == _session_exists(w, env)
    IN  IF ~e.val
        THEN Ret(e.w, "True")
        ELSE LET s == send(e.w, self, ExitCommand, env)
             IN  IF s.ret = "raise"
                 THEN s
                 ELSE LET k == _run_tmux(s, <<"kill-session", session_name>>, env)
                          u == IF k.w.session_file.exists
                               THEN [k.w EXCEPT !.session_file = NoFile] ELSE k.w
                      IN  Ret(u, "True")

----------------------------------------------------------------------------
(* REPL flavor selection of ClaudeREPL (test/claude_repl.py).              *)

(* The candidates in the order of the list `repls`, each with its launch   *)
(* command line ("config.py" is the path _create_ptpython_config returns,  *)
(* "rich_init" the text of _get_rich_init); the last one is not probed.    *)
repls ==
    << [name |-> "ptpython", cmd |-> <<"ptpython", "--config-file", "config.py">>],
       [name |-> "ipython", cmd |-> <<"ipython">>],
       [name |-> "python-rich", cmd |-> <<"python3", "-i", "-c", "rich_init">>],
       [name |-> "python", cmd |-> <<"python3", "-i">>] >>

Probed == {"ptpython", "ipython", "python-rich"}

(* How a probe (subprocess.run with timeout = 5) can end: exit code 0, a   *)
(* non-zero exit code, TimeoutExpired, or another exception such as the    *)
(* program not being installed.                                            *)
ProbeOutcomes == {"success", "nonzero", "timeout", "exception"}

NoRepl == [name |-> None, cmd |-> <<>>]

RECURSIVE ProbeFrom(_, _)
(* _get_best_repl as it would be if a probe that ran to the end counted,   *)
(* whatever its exit code.                                                 *)
ProbeFrom_any_exit(probes, i) ==
    IF i > Len(repls)
    THEN [name |-> "python", cmd |-> <<"python3", "-i">>]
    ELSE IF repls[i].name \in Probed
    THEN IF probes[repls[i].name] \in {"success", "nonzero"}
         THEN repls[i]
         ELSE ProbeFrom(probes, i + 1)
    ELSE repls[i]

(* The for loop from candidate i on: a probe that exits 0 returns its      *)
(* candidate, a non-zero exit falls out of the if, an exception is caught  *)
(* by the bare except; both go on to the next candidate. "python" returns  *)
(* without a probe, and so does the statement after the loop.              *)
ProbeFrom(probes, i) ==
    IF i > Len(repls)
    THEN [name |-> "python", cmd |-> <<"python3", "-i">>]
    ELSE IF repls[i].name \in Probed
    THEN IF probes[repls[i].name] = "success"
         THEN repls[i]
         ELSE ProbeFrom(probes, i + 1)
    ELSE repls[i]

_get_best_repl(probes) == ProbeFrom(probes, 1)

----------------------------------------------------------------------------
(* The state machine.                                                      *)

Quiet ==
    [venv_exists |-> TRUE, python_exists |-> TRUE, create_ok |-> TRUE,
     exits |-> FALSE, color_fail |-> {}, perm |-> "ok", hangs |-> FALSE]

Pre == [tmux_session |-> tmux_session, session_file |-> session_file,
        pause_held |-> pause_held]

(* main(): every invocation of the tool runs its one operation on a fresh  *)
(* instance, and the instance dies with the process.                       *)
Exit(w) == __init__(w, "cli", None)

(* main(): the exit code of the process that ran subcommand command, whose *)
(* controller method ended with ret. Only the test subcommand passes its   *)
(* result to sys.exit; every other branch drops the method's return value  *)
(* and falls off the end of main (exit code 0). An exception that nothing  *)
(* catches ends the interpreter with exit code 1.                          *)
main(command, ret) ==
    IF ret = "raise" THEN 1
    ELSE IF command = "test" THEN (IF ret = "True" THEN 0 ELSE 1)
    ELSE 0

(* Command-line processes that run at the same time. A process that is    *)
(* not running anything holds what __init__ gives a fresh instance; calls  *)
(* is the tmux invocations its operation has made so far.                  *)
Procs == {"p1", "p2"}
Idle ==
    [op |-> None, command |-> None, pc |-> "idle", paused |-> FALSE,
     venv_path |-> None, info |-> EmptyDict, ret |-> None,
     created |-> FALSE, delivered |-> FALSE, calls |-> <<>>]

(* The state after an operation op of instance self returned in world w.  *)
Observed(op, self, command, lines, w) ==
    [op |-> op, self |-> self, command |-> command, lines |-> lines,
     ret |-> w.ret, calls |-> w.calls, out |-> w.out, report |-> w.report,
     pre |-> Pre]

Applied(op, self, command, lines, w) ==
    /\ tmux_session' = w.tmux_session
    /\ scrollback' = w.scrollback
    /\ session_file' = w.session_file
    /\ paused' = Exit(w).paused
    /\ venv_path' = Exit(w).venv_path
    /\ now' = w.now
    /\ pause_held' = IF ~w.tmux_session THEN FALSE
                     ELSE IF op = "pause" /\ w.ret = "True" THEN TRUE
                     ELSE IF op = "resume" THEN FALSE
                     ELSE pause_held
    /\ last' = Observed(op, self, command, lines, w)
    /\ UNCHANGED <<proc, writes, repl>>

Apply(op, self, command, w) == Applied(op, self, command, 0, w)

InitController ==
    /\ tmux_session = FALSE
    /\ scrollback = <<>>
    /\ session_file = NoFile
    /\ paused = [i \in Inst |-> FALSE]
    /\ venv_path = [i \in Inst |-> None]
    /\ now = 1
    /\ pause_held = FALSE
    /\ last = Observed("init", None, None, 0, World)
    /\ proc = [p \in Procs |-> Idle]
    /\ writes = <<>>

Init ==
    /\ InitController
    /\ repl = [probes |-> [c \in Probed |-> "success"], best |-> NoRepl]

New(self) ==
    /\ self \in Inst
    /\ Apply("new", self, None, __init__(World, self, None))

Start(self) ==
    \E venv_arg \in Venvs \cup {None}, venv_exists, python_exists, create_ok \in BOOLEAN :
        LET env == [Quiet EXCEPT !.venv_exists = venv_exists,
                                 !.python_exists = python_exists,
                                 !.create_ok = create_ok]
            w == start(World, self, venv_arg, env)
        IN  /\ w.now <= MaxTime + 1
            /\ Apply("start", self, None, w)

Send(self) ==
    \E command \in Commands, exits \in BOOLEAN :
        /\ self \in Inst
        /\ Apply("send", self, command,
                 send(World, self, command, [Quiet EXCEPT !.exits = exits]))

Read(self) ==
    \E lines \in LineCounts :
        /\ self \in Inst
        /\ Applied("read", self, None, lines, read(World, lines, Quiet))

Status(self) ==
    /\ self \in Inst
    /\ Apply("status", self, None, status(World, self, Quiet))

Attach(self) ==
    /\ self \in Inst
    /\ Apply("attach", self, None, attach(World, Quiet))

Pause(self) ==
    /\ self \in Inst
    /\ Apply("pause", self, None, pause(World, self, Quiet))

Resume(self) ==
    /\ self \in Inst
    /\ Apply("resume", self, None, resume(World, self, Quiet))

ForceSend(self) ==
    \E command \in Commands, exits \in BOOLEAN :
        /\ self \in Inst
        /\ Apply("force_send", self, command,
                 force_send(World, command, [Quiet EXCEPT !.exits = exits]))

Stop(self) ==
    \E exits \in BOOLEAN :
        /\ self \in Inst
        /\ Apply("stop", self, ExitCommand,
                 stop(World, self, [Quiet EXCEPT !.exits = exits]))

(* Out-of-band: tmux kill-session -t claude from another terminal, or the  *)
(* interpreter crashing.                                                   *)
ExternalKill ==
    /\ tmux_session
    /\ Apply("external-kill", None, None, [World EXCEPT !.tmux_session = FALSE])

(* Out-of-band: tmux new-session -d -s claude run by hand.                 *)
ExternalCreate ==
    /\ ~tmux_session
    /\ Apply("external-create", None, None,
             [World EXCEPT !.tmux_session = TRUE, !.scrollback = <<>>])

(* A pause, resume or start killed inside _save_session_info, between      *)
(* open(session_file, "w") truncating the file and json.dump writing it:   *)
(* the file is left empty, which json.load rejects.                        *)
InterruptedSave ==
    /\ tmux_session
    /\ pause_held' = FALSE
    /\ session_file' = [exists |-> TRUE, malformed |-> TRUE, info |-> EmptyDict]
    /\ last' = Observed("interrupted-save", None, None, 0, World)
    /\ UNCHANGED <<tmux_session, scrollback, paused, venv_path, now, proc, writes, repl>>

Next ==
    \/ New("obj")
    \/ \E self \in Inst : Start(self)
    \/ \E self \in Inst : Send(self)
    \/ \E self \in Inst : Read(self)
    \/ \E self \in Inst : Status(self)
    \/ \E self \in Inst : Attach(self)
    \/ \E self \in Inst : Pause(self)
    \/ \E self \in Inst : Resume(self)
    \/ \E self \in Inst : ForceSend(self)
    \/ \E self \in Inst : Stop(self)
    \/ ExternalKill
    \/ ExternalCreate
    \/ InterruptedSave

Spec == Init /\ [][Next]_vars

(* The tmux server has stopped answering: a tmux process started now never *)
(* exits. One command-line invocation is made in that condition. The two   *)
(* probes of _ensure_tmux_permissions carry timeouts and give up; the      *)
(* first call through _run_tmux has none.                                  *)
Unanswered ==
    LET env == [Quiet EXCEPT !.hangs = TRUE, !.perm = "denied"]
    IN  \/ Apply("start", "cli", None, start(World, "cli", None, env))
        \/ \E command \in Commands :
              Apply("send", "cli", command, send(World, "cli", command, env))
        \/ \E lines \in LineCounts :
              Applied("read", "cli", None, lines, read(World, lines, env))
        \/ Apply("status", "cli", None, status(World, "cli", env))
        \/ Apply("pause", "cli", None, pause(World, "cli", env))
        \/ Apply("resume", "cli", None, resume(World, "cli", env))
        \/ Apply("stop", "cli", ExitCommand, stop(World, "cli", env))

NextHang ==
    \/ Next
    \/ Unanswered

SpecHang == Init /\ [][NextHang]_vars

(* start in an environment where the list-sessions probe of                *)
(* _ensure_tmux_permissions may time out and set-option calls may fail.    *)
StartProbing(self) ==
    \E perm \in PermOutcomes, color_fail \in ColorFailures :
        LET env == [Quiet EXCEPT !.perm = perm, !.color_fail = color_fail]
            w == start(World, self, None, env)
        IN  /\ self \in Inst
            /\ w.now <= MaxTime + 1
            /\ Apply("start", self, None, w)

NextProbe ==
    \/ New("obj")
    \/ \E self \in Inst : StartProbing(self)
    \/ \E self \in Inst : Send(self)
    \/ \E self \in Inst : Read(self)
    \/ \E self \in Inst : Status(self)
    \/ \E self \in Inst : Attach(self)
    \/ \E self \in Inst : Pause(self)
    \/ \E self \in Inst : Resume(self)
    \/ \E self \in Inst : ForceSend(self)
    \/ \E self \in Inst : Stop(self)
    \/ ExternalKill
    \/ ExternalCreate

SpecProbe == Init /\ [][NextProbe]_vars

----------------------------------------------------------------------------
(* Operations of concurrent processes, one step per access to tmux or to   *)
(* the metadata file. A step takes the operation from position pc in world *)
(* w, with info the record the operation holds, to the next position, or   *)
(* to "done" with the value returned.                                      *)

Goto(w, pc, info) == [w |-> w, pc |-> pc, info |-> info, ret |-> None]
Done(w, ret) == [w |-> w, pc |-> "done", info |-> EmptyDict, ret |-> ret]

pause_step(pc, w, info, env) ==
    CASE pc = "exists" ->
            LET e == _session_exists(w, env)
            IN  IF ~e.val
                THEN Done(e.w, "False")
                ELSE Goto([e.w EXCEPT !.paused["cli"] = TRUE], "load", info)
      [] pc = "load" ->
            LET l == _load_session_info(w, "cli")
            IN  IF l.raised
                THEN Done(l.w, "raise")
                ELSE Goto(l.w, "save", Put(l.val, "paused", TRUE))
      [] pc = "save" ->
            Done(_save_session_info(w, "cli", info), "True")

resume_step(pc, w, info, env) ==
    CASE pc = "exists" ->
            LET e == _session_exists(w, env)
            IN  IF ~e.val
                THEN Done(e.w, "False")
                ELSE Goto([e.w EXCEPT !.paused["cli"] = FALSE], "load", info)
      [] pc = "load" ->
            LET l == _load_session_info(w, "cli")
            IN  IF l.raised
                THEN Done(l.w, "raise")
                ELSE Goto(l.w, "save", Put(l.val, "paused", FALSE))
      [] pc = "save" ->
            Done(_save_session_info(w, "cli", info), "True")

(* start, statement by statement, as it would be if it went on to the      *)
(* colors and the metadata record whatever new-session answered.           *)
start_step_ignoring_failure(pc, w, info, env) ==
    CASE pc = "exists" ->
            LET e == _session_exists(_ensure_tmux_permissions(w, env), env)
            IN  IF e.val THEN Goto(e.w, "load", info) ELSE Goto(e.w, "create", info)
      [] pc = "load" ->
            LET l == _load_session_info(w, "cli")
            IN  IF l.raised THEN Done(l.w, "raise") ELSE Done(l.w, "True")
      [] pc = "create" ->
            IF w.venv_path["cli"] # None /\ ~(env.venv_exists /\ env.python_exists)
            THEN Done(w, "False")
            ELSE LET python_cmd == IF w.venv_path["cli"] # None
                                   THEN <<w.venv_path["cli"], "bin", "python">>
                                   ELSE <<"python3">>
                     r == _run_tmux(w, <<"new-session", session_name, python_cmd>>, env)
                 IN  Goto(r.w, "save", info)
      [] pc = "save" ->
            LET c == _apply_tmux_colors(w, env)
                session_info ==
                    [session_name |-> session_name,
                     created_at |-> c.now,
                     working_dir |-> Cwd("cli"),
                     status |-> "active"]
                s == _save_session_info(c, "cli", session_info)
            IN  Done([s EXCEPT !.now = @ + 1], "True")

start_step(pc, w, info, env) ==
    CASE pc = "exists" ->
            LET e == _session_exists(_ensure_tmux_permissions(w, env), env)
            IN  IF e.val THEN Goto(e.w, "load", info) ELSE Goto(e.w, "create", info)
      [] pc = "load" ->
            LET l == _load_session_info(w, "cli")
            IN  IF l.raised THEN Done(l.w, "raise") ELSE Done(l.w, "True")
      [] pc = "create" ->
            IF w.venv_path["cli"] # None /\ ~(env.venv_exists /\ env.python_exists)
            THEN Done(w, "False")
            ELSE LET python_cmd == IF w.venv_path["cli"] # None
                                   THEN <<w.venv_path["cli"], "bin", "python">>
                                   ELSE <<"python3">>
                     r == _run_tmux(w, <<"new-session", session_name, python_cmd>>, env)
                 IN  IF r.stdout_is_None
                     THEN Done(r.w, "False")
                     ELSE Goto(r.w, "save", info)
      [] pc = "save" ->
            LET c == _apply_tmux_colors(w, env)
                session_info ==
                    [session_name |-> session_name,
                     created_at |-> c.now,
                     working_dir |-> Cwd("cli"),
                     status |-> "active"]
                s == _save_session_info(c, "cli", session_info)
            IN  Done([s EXCEPT !.now = @ + 1], "True")

(* send, statement by statement, as it would be if a send-keys that found  *)
(* no session brought the session back before giving up.                   *)
send_step_recreating(command, pc, w, info, env) ==
    CASE pc = "exists" ->
            LET e == _session_exists(w, env)
            IN  IF ~e.val THEN Done(e.w, "False") ELSE Goto(e.w, "load", info)
      [] pc = "load" ->
            LET l == _load_session_info(w, "cli")
            IN  IF l.raised
                THEN Done(l.w, "raise")
                ELSE IF Get(l.val, "paused", FALSE)
                THEN Done(l.w, "False")
                ELSE Goto(l.w, "keys", info)
      [] pc = "keys" ->
            LET r == _run_tmux(w, <<"send-keys", session_name, command, "Enter">>, env)
            IN  IF r.stdout_is_None
                THEN Done(_run_tmux(r.w, <<"new-session", session_name, <<"python3">>>>,
                                    env).w, "False")
                ELSE Done(r.w, "True")

(* send, statement by statement, as it would be if a send-keys that failed *)
(* were tried a second time.                                               *)
send_step_retrying(command, pc, w, info, env) ==
    CASE pc = "exists" ->
            LET e == _session_exists(w, env)
            IN  IF ~e.val THEN Done(e.w, "False") ELSE Goto(e.w, "load", info)
      [] pc = "load" ->
            LET l == _load_session_info(w, "cli")
            IN  IF l.raised
                THEN Done(l.w, "raise")
                ELSE IF Get(l.val, "paused", FALSE)
                THEN Done(l.w, "False")
                ELSE Goto(l.w, "keys", info)
      [] pc = "keys" ->
            LET r == _run_tmux(w, <<"send-keys", session_name, command, "Enter">>, env)
                again == _run_tmux(r.w, <<"send-keys", session_name, command, "Enter">>, env)
            IN  IF ~r.stdout_is_None
                THEN Done(r.w, "True")
                ELSE IF again.stdout_is_None
                THEN Done(again.w, "False")
                ELSE Done(again.w, "True")

send_step(command, pc, w, info, env) ==
    CASE pc = "exists" ->
            LET e == _session_exists(w, env)
            IN  IF ~e.val THEN Done(e.w, "False") ELSE Goto(e.w, "load", info)
      [] pc = "load" ->
            LET l == _load_session_info(w, "cli")
            IN  IF l.raised
                THEN Done(l.w, "raise")
                ELSE IF Get(l.val, "paused", FALSE)
                THEN Done(l.w, "False")
                ELSE Goto(l.w, "keys", info)
      [] pc = "keys" ->
            LET r == _run_tmux(w, <<"send-keys", session_name, command, "Enter">>, env)
            IN  IF r.stdout_is_None THEN Done(r.w, "False") ELSE Done(r.w, "True")

(* stop runs a whole send("exit()") between its existence check and its    *)
(* kill-session, and tests session_file.exists() before unlink().          *)
SendPosition(pc) ==
    CASE pc = "send_exists" -> "exists"
      [] pc = "send_load" -> "load"
      [] pc = "send_keys" -> "keys"

InStop(pc) ==
    CASE pc = "exists" -> "send_exists"
      [] pc = "load" -> "send_load"
      [] pc = "keys" -> "send_keys"

stop_step(pc, w, info, env) ==
    CASE pc = "exists" ->
            LET e == _session_exists(w, env)
            IN  IF ~e.val THEN Done(e.w, "True") ELSE Goto(e.w, "send_exists", info)
      [] pc \in {"send_exists", "send_load", "send_keys"} ->
            LET s == send_step(ExitCommand, SendPosition(pc), w, info, env)
            IN  IF s.pc # "done"
                THEN Goto(s.w, InStop(s.pc), s.info)
                ELSE IF s.ret = "raise"
                THEN Done(s.w, "raise")
                ELSE Goto(s.w, "kill", info)
      [] pc = "kill" ->
            Goto(_run_tmux(w, <<"kill-session", session_name>>, env).w, "unlink_check", info)
      [] pc = "unlink_check" ->
            IF w.session_file.exists THEN Goto(w, "unlink", info) ELSE Done(w, "True")
      [] pc = "unlink" ->
            IF w.session_file.exists
            THEN Done([w EXCEPT !.session_file = NoFile], "True")
            ELSE Done(w, "raise")

RaceOps == {"start", "pause", "resume", "send", "stop"}

Step(op, command, pc, w, info, env) ==
    CASE op = "start" -> start_step(pc, w, info, env)
      [] op = "pause" -> pause_step(pc, w, info, env)
      [] op = "resume" -> resume_step(pc, w, info, env)
      [] op = "send" -> send_step(command, pc, w, info, env)
      [] op = "stop" -> stop_step(pc, w, info, env)

(* The world as process p sees it: the shared state and its own instance.  *)
ProcWorld(p) ==
    [World EXCEPT !.paused = [i \in Inst |-> proc[p].paused],
                  !.venv_path = [i \in Inst |-> proc[p].venv_path]]

(* A process is started from the command line.                             *)
Launch(p) ==
    \E op \in RaceOps :
        /\ proc[p].pc = "idle"
        /\ proc' = [proc EXCEPT ![p] =
                      [Idle EXCEPT !.op = op, !.pc = "exists",
                                   !.command = CASE op = "send" -> "x=1"
                                                 [] op = "stop" -> ExitCommand
                                                 [] OTHER -> None]]
        /\ UNCHANGED <<tmux_session, scrollback, session_file, paused, venv_path, now,
                       pause_held, last, writes, repl>>

(* Process p takes the next step of its operation.                         *)
Advance(p) ==
    \E exits \in BOOLEAN :
        LET me == proc[p]
            r == Step(me.op, me.command, me.pc, ProcWorld(p), me.info,
                      [Quiet EXCEPT !.exits = exits])
        IN  /\ me.pc \notin {"idle", "done"}
            /\ r.w.now <= MaxTime + 1
            /\ tmux_session' = r.w.tmux_session
            /\ scrollback' = r.w.scrollback
            /\ session_file' = r.w.session_file
            /\ now' = r.w.now
            /\ proc' = [proc EXCEPT ![p] =
                          [@ EXCEPT !.pc = r.pc, !.info = r.info, !.ret = r.ret,
                                    !.paused = r.w.paused["cli"],
                                    !.venv_path = r.w.venv_path["cli"],
                                    !.created = @ \/ (me.op = "start" /\ me.pc = "create"
                                                        /\ r.pc = "save"),
                                    !.delivered = @ \/ (me.pc \in {"keys", "send_keys"}
                                                          /\ r.w.scrollback # scrollback),
                                    !.calls = @ \o r.w.calls]]
            /\ writes' = IF me.pc = "save"
                         THEN Append(writes, [p |-> p, op |-> me.op])
                         ELSE writes
            /\ UNCHANGED <<paused, venv_path, pause_held, last, repl>>

(* The processes that ran have all returned; they exit.                    *)
Retire ==
    /\ \A p \in Procs : proc[p].pc \in {"idle", "done"}
    /\ \E p \in Procs : proc[p].pc = "done"
    /\ proc' = [p \in Procs |-> Idle]
    /\ writes' = <<>>
    /\ UNCHANGED <<tmux_session, scrollback, session_file, paused, venv_path, now,
                   pause_held, last, repl>>

NextRace ==
    \/ \E p \in Procs : Launch(p)
    \/ \E p \in Procs : Advance(p)
    \/ Retire

SpecRace == Init /\ [][NextRace]_vars

----------------------------------------------------------------------------
(* ClaudeREPL._get_best_repl under every combination of probe outcomes.    *)

InitRepl ==
    /\ InitController
    /\ repl \in [probes : [Probed -> ProbeOutcomes], best : {NoRepl}]

GetBestRepl ==
    /\ repl.best = NoRepl
    /\ repl' = [repl EXCEPT !.best = _get_best_repl(repl.probes)]
    /\ UNCHANGED <<tmux_session, scrollback, session_file, paused, venv_path, now,
                   pause_held, last, proc, writes>>

NextRepl == GetBestRepl

SpecRepl == InitRepl /\ [][NextRepl]_vars

----------------------------------------------------------------------------
(* Vocabulary of the properties. `last` describes the operation that led   *)
(* to the current state: last.pre is the state it was called in.           *)

(* The last operation issued tmux subcommand sub against session_name.     *)
Issued(sub) ==
    \E i \in DOMAIN last.calls :
        /\ last.calls[i].cmd[1] = sub
        /\ Len(last.calls[i].cmd) >= 2
        /\ last.calls[i].cmd[2] = session_name

(* The last operation's send-keys calls that tmux accepted.                *)
Delivered ==
    SelectSeq(last.calls, LAMBDA c : c.cmd[1] = "send-keys" /\ c.ok)

(* The metadata file f is readable and says paused = true.                 *)
PersistedPaused(f) ==
    f.exists /\ ~f.malformed /\ Get(f.info, "paused", FALSE)

(* The shared state of world w is the current one.                         *)
SameState(w) ==
    /\ w.tmux_session = tmux_session
    /\ w.scrollback = scrollback
    /\ w.session_file = session_file

----------------------------------------------------------------------------
(* C1. Pause gating: on an existing session, from a pause() that returned  *)
(* True until a resume() runs, every send() returns False and issues no    *)
(* send-keys call.                                                         *)
C1_PauseGating ==
    (last.op = "send" /\ last.pre.tmux_session /\ last.pre.pause_held)
        => (last.ret = "False" /\ ~Issued("send-keys"))

(* C2. Resume restores: once pause() and then resume() have returned True  *)
(* on an existing session, the persisted paused flag is false and the next *)
(* send() of any instance passes the gate and delivers its keystrokes.     *)
C2_ResumeRestores ==
    (last.op = "resume" /\ last.ret = "True" /\ last.pre.pause_held)
        => /\ ~PersistedPaused(session_file)
           /\ \A self \in Inst, command \in Commands :
                LET w == send(World, self, command, Quiet)
                IN  /\ w.ret = "True"
                    /\ w.calls[Len(w.calls)] =
                          [cmd |-> <<"send-keys", session_name, command, "Enter">>,
                           ok |-> TRUE]

(* C3. Whenever start() creates a new session, the record it writes has    *)
(* paused = false and status = "active".                                   *)
C3_StartWritesFreshRecord ==
    (last.op = "start" /\ ~last.pre.tmux_session /\ last.ret = "True")
        => /\ session_file.exists /\ ~session_file.malformed
           /\ Has(session_file.info, "paused")
           /\ session_file.info["paused"] = FALSE
           /\ Get(session_file.info, "status", None) = "active"

(* C4. force_send on an existing session delivers the command and returns  *)
(* True whatever the paused flag; on an absent session it returns False    *)
(* and issues no send-keys call.                                           *)
C4_ForcedSendBypassesOnlyPause ==
    last.op = "force_send"
        => IF last.pre.tmux_session
           THEN /\ last.ret = "True"
                /\ Delivered =
                      << [cmd |-> <<"send-keys", session_name, last.command, "Enter">>,
                          ok |-> TRUE] >>
                /\ scrollback # <<>>
                /\ scrollback[Len(scrollback)] = last.command
           ELSE /\ last.ret = "False"
                /\ ~Issued("send-keys")

C4_Witness ==
    /\ last.op = "force_send"
    /\ last.pre.tmux_session
    /\ PersistedPaused(last.pre.session_file)
    /\ last.ret = "True"
    /\ Delivered # <<>>

(* C5. With the session gone and its metadata file still there (readable   *)
(* or not, paused or not), send returns False without a send-keys call and *)
(* read returns the empty text: each issues has-session and nothing else,  *)
(* and leaves the file as it was.                                          *)
C5_ExistenceBeforeMetadata ==
    (last.op \in {"send", "read"} /\ ~last.pre.tmux_session
        /\ last.pre.session_file.exists)
        => /\ last.op = "send" => last.ret = "False"
           /\ last.op = "read" => (last.ret = "str" /\ last.out = <<>>)
           /\ ~Issued("send-keys")
           /\ last.calls = << [cmd |-> <<"has-session", session_name>>, ok |-> FALSE] >>
           /\ session_file = last.pre.session_file

C5_Witness ==
    /\ last.op = "send"
    /\ ~last.pre.tmux_session
    /\ last.pre.session_file.exists
    /\ ~last.pre.session_file.malformed
    /\ Has(last.pre.session_file.info, "created_at")
    /\ last.ret = "False"

(* C6. start() on an existing session returns True, issues no new-session  *)
(* call and leaves the metadata file and the session as they were.         *)
C6_IdempotentStart ==
    (last.op = "start" /\ last.pre.tmux_session)
        => /\ last.ret = "True"
           /\ ~Issued("new-session")
           /\ session_file = last.pre.session_file
           /\ tmux_session

(* C7. stop() on an absent session returns True without send-keys or       *)
(* kill-session; and in the state a stop() leaves, that stop returned True *)
(* and a second stop() returns True and changes nothing.                   *)
C7_StopIdempotent ==
    last.op = "stop"
        => /\ ~last.pre.tmux_session
                => /\ last.ret = "True"
                   /\ ~Issued("send-keys")
                   /\ ~Issued("kill-session")
           /\ last.ret = "True"
           /\ \A exits \in BOOLEAN :
                LET w == stop(World, last.self, [Quiet EXCEPT !.exits = exits])
                IN  w.ret = "True" /\ SameState(w)

(* C8. When stop() returns on an existing session, the session is gone,    *)
(* the metadata file is gone, and status() of any instance returns False.  *)
C8_StopReturnsToAbsent ==
    (last.op = "stop" /\ last.pre.tmux_session /\ last.ret \in {"True", "False"})
        => /\ ~tmux_session
           /\ ~session_file.exists
           /\ \A self \in Inst : status(World, self, Quiet).ret = "False"

C8_Witness ==
    /\ last.op = "stop"
    /\ last.pre.tmux_session
    /\ last.pre.session_file.exists
    /\ last.ret = "True"
    /\ Delivered # <<>>

(* C9. stop() on a Paused session (it exists, persisted paused = true)     *)
(* delivers no keystrokes, still issues kill-session, deletes the metadata *)
(* file and returns True.                                                  *)
C9_StopProceedsWhenPaused ==
    (last.op = "stop" /\ last.pre.tmux_session
        /\ PersistedPaused(last.pre.session_file))
        => /\ ~Issued("send-keys")
           /\ Issued("kill-session")
           /\ ~session_file.exists
           /\ ~tmux_session
           /\ last.ret = "True"

C9_Witness ==
    /\ last.op = "stop"
    /\ last.pre.tmux_session
    /\ PersistedPaused(last.pre.session_file)
    /\ last.ret = "True"

(* C10. stop() on an existing session issues kill-session and removes the  *)
(* metadata file whatever its internal send does, a malformed metadata     *)
(* file included.                                                          *)
C10_StopCleanupAlwaysCompletes ==
    (last.op = "stop" /\ last.pre.tmux_session)
        => /\ Issued("kill-session")
           /\ ~session_file.exists
           /\ ~tmux_session

(* C11. With a malformed metadata file, loading yields the empty record    *)
(* and send, status, pause, resume and start on an existing session        *)
(* complete with their normal result: they return True, and send delivers  *)
(* its keystrokes since paused counts as false.                            *)
C11_CorruptMetadataDegrades ==
    (last.op \in {"send", "status", "pause", "resume", "start"}
        /\ last.pre.tmux_session
        /\ last.pre.session_file.malformed)
        => /\ last.ret = "True"
           /\ (last.op = "send" => Delivered = <<last.command>>)

(* The environments in which the virtual environment passed to start does  *)
(* not resolve: the directory is missing, or bin/python inside it is.      *)
UnresolvedEnvs ==
    {env \in {[Quiet EXCEPT !.venv_exists = ve, !.python_exists = pe,
                            !.create_ok = co] :
                  ve \in BOOLEAN, pe \in BOOLEAN, co \in BOOLEAN} :
        ~(env.venv_exists /\ env.python_exists)}

(* A start that found no session and gave up before creating one.          *)
StartGaveUpUnresolved ==
    /\ last.op = "start"
    /\ ~last.pre.tmux_session
    /\ last.ret = "False"
    /\ ~Issued("new-session")

(* C12 as stated: start() given a virtual environment that does not        *)
(* resolve returns False, issues no new-session and writes no metadata,    *)
(* whatever the state it is called in.                                     *)
C12_EnvFailureCleanAnywhere ==
    \A self \in Inst, venv_arg \in Venvs, env \in UnresolvedEnvs :
        LET w == start(World, self, venv_arg, env)
        IN  /\ w.ret = "False"
            /\ \A i \in DOMAIN w.calls : w.calls[i].cmd[1] # "new-session"
            /\ w.session_file = session_file

(* C12. When no session exists, start() given a virtual environment that   *)
(* does not resolve returns False, issues no new-session (no fall back to  *)
(* python3), creates no session and leaves the metadata file as it was.    *)
C12_EnvFailureClean ==
    /\ ~tmux_session =>
        \A self \in Inst, venv_arg \in Venvs, env \in UnresolvedEnvs :
            LET w == start(World, self, venv_arg, env)
            IN  /\ w.ret = "False"
                /\ \A i \in DOMAIN w.calls : w.calls[i].cmd[1] # "new-session"
                /\ w.session_file = session_file
                /\ ~w.tmux_session
    /\ StartGaveUpUnresolved => (session_file = last.pre.session_file /\ ~tmux_session)

C12_Witness ==
    /\ StartGaveUpUnresolved
    /\ last.self = "cli"
    /\ session_file = last.pre.session_file

(* The last operation issued tmux subcommand sub and it ended this way.    *)
IssuedWith(sub, ok) ==
    \E i \in DOMAIN last.calls :
        last.calls[i].cmd[1] = sub /\ last.calls[i].ok = ok

(* C13. A start() whose new-session call fails returns False and leaves    *)
(* the metadata file, an orphaned one included, exactly as it was; and a   *)
(* start() that changed the metadata file issued a new-session call that   *)
(* succeeded.                                                              *)
C13_StartAtomicWithMetadata ==
    last.op = "start" =>
        /\ IssuedWith("new-session", FALSE) =>
              /\ last.ret = "False"
              /\ session_file = last.pre.session_file
              /\ ~tmux_session
        /\ session_file # last.pre.session_file =>
              /\ IssuedWith("new-session", TRUE)
              /\ tmux_session

C13_Witness ==
    /\ last.op = "start"
    /\ IssuedWith("new-session", FALSE)
    /\ last.pre.session_file.exists
    /\ session_file = last.pre.session_file

(* The exit code of the process of the last operation, when it was run     *)
(* from the command line.                                                  *)
ExitCode == main(last.op, last.ret)

(* The last operation reported failure: it returned False, raised, or (a   *)
(* read) found no session to capture.                                      *)
ReportedFailure ==
    \/ last.ret \in {"False", "raise"}
    \/ last.op = "read" /\ ~IssuedWith("capture-pane", TRUE)

(* C14. A command-line invocation of start, send, read, status, pause,     *)
(* resume or attach exits nonzero when the operation reported failure and  *)
(* exits 0 only when it succeeded.                                         *)
C14_ExitCodeContract ==
    (last.self = "cli"
        /\ last.op \in {"start", "send", "read", "status", "pause", "resume", "attach"})
        => (ExitCode # 0 <=> ReportedFailure)

(* The metadata file f holds a record written by start.                    *)
StartRecord(f) ==
    f.exists /\ ~f.malformed /\ Has(f.info, "created_at") /\ Has(f.info, "working_dir")

(* C15. start on the existing session, send, forced send, read, status,    *)
(* pause and resume, from any instance, leave the persisted created_at and *)
(* working_dir of a record written by start as they were, and status()     *)
(* reports exactly those two values (the creation time as ctime prints     *)
(* it), whichever instance wrote them.                                     *)
C15_MetadataSurvivesInstances ==
    (last.op \in {"start", "send", "force_send", "read", "status", "pause", "resume"}
        /\ (last.op = "start" => last.pre.tmux_session)
        /\ StartRecord(last.pre.session_file))
        => /\ StartRecord(session_file)
           /\ session_file.info.created_at = last.pre.session_file.info.created_at
           /\ session_file.info.working_dir = last.pre.session_file.info.working_dir
           /\ (last.op = "status" /\ last.ret = "True") =>
                 last.report = [created_at |-> ctime(session_file.info.created_at),
                                working_dir |-> session_file.info.working_dir]

C15_Witness ==
    /\ last.op = "status"
    /\ last.self = "cli"
    /\ last.ret = "True"
    /\ pause_held
    /\ StartRecord(session_file)
    /\ last.report = [created_at |-> ctime(session_file.info.created_at),
                      working_dir |-> Cwd("obj")]

(* The commands a captured text shows, in the order of its lines.          *)
ShownCommands(text) ==
    LET typed == SelectSeq(text, LAMBDA ln : Len(ln) = 2 /\ ln[1] = ">>>")
    IN  [i \in 1..Len(typed) |-> typed[i][2]]

(* C16. A send() that returns True adds its command, and nothing else,     *)
(* after the commands the session's interpreter already received (within   *)
(* the history tmux keeps), whichever process the earlier sends came from; *)
(* and a read() of the existing session asking for at least the whole pane *)
(* returns text showing exactly those commands in that order.              *)
C16_RoundTripAcrossInvocations ==
    [][/\ (last'.op = "send" /\ last'.ret = "True") =>
              /\ tmux_session
              /\ scrollback' = LastN(Append(scrollback, last'.command), HistoryLimit)
       /\ (last'.op = "read" /\ tmux_session /\ last'.lines >= Len(scrollback) + 2) =>
              /\ scrollback' = scrollback
              /\ ShownCommands(last'.out) = scrollback]_vars

C16_Witness ==
    /\ last.op = "read"
    /\ last.self = "cli"
    /\ last.pre.tmux_session
    /\ Len(scrollback) = 2
    /\ scrollback[1] # scrollback[2]
    /\ ShownCommands(last.out) = scrollback

(* C17. send()'s pause gate follows the persisted flag alone: on an        *)
(* existing session with a readable or absent metadata file, send is       *)
(* refused without keystrokes exactly when the file says paused = true;    *)
(* so after another instance's pause() a send from an instance built       *)
(* earlier is refused, and after another instance's resume() a send from   *)
(* an instance whose own copy still says paused is delivered.              *)
C17_GateReadsPersistedFlag ==
    /\ (last.op = "send" /\ last.pre.tmux_session /\ ~last.pre.session_file.malformed)
          => ((last.ret = "False" /\ Delivered = <<>>)
                <=> PersistedPaused(last.pre.session_file))
    /\ (last.op = "pause" /\ last.self = "cli" /\ last.ret = "True" /\ tmux_session)
          => \A command \in Commands :
                LET w == send(World, "obj", command, Quiet)
                IN  w.ret = "False" /\ w.scrollback = scrollback
    /\ (last.op = "resume" /\ last.self = "cli" /\ last.ret = "True" /\ tmux_session
          /\ paused["obj"])
          => \A command \in Commands :
                send(World, "obj", command, Quiet).ret = "True"

(* C18. With the session gone and its metadata file left behind, a start() *)
(* that succeeds replaces the file with the record of the new session      *)
(* (created now, in the caller's working directory), and a stop() removes  *)
(* the file.                                                               *)
C18_StaleMetadataSelfHeals ==
    (~last.pre.tmux_session /\ last.pre.session_file.exists)
        => /\ (last.op = "start" /\ last.ret = "True") =>
                 /\ StartRecord(session_file)
                 /\ session_file.info.created_at = now - 1
                 /\ session_file.info.working_dir = Cwd(last.self)
           /\ last.op = "stop" => ~session_file.exists

(* C19. start, send, read, status, pause, resume and stop each return,     *)
(* also when a tmux invocation they make never exits: none of them stays   *)
(* blocked in a tmux call.                                                 *)
C19_EveryOperationReturns ==
    last.op \in {"start", "send", "read", "status", "pause", "resume", "stop"}
        => last.ret # "blocked"

(* C20. pause() and resume() on an absent session return False, leave the  *)
(* metadata file (an orphaned one included) exactly as it was, create no   *)
(* session, and issue has-session and no other tmux call.                  *)
C20_PauseResumeOnAbsentSession ==
    (last.op \in {"pause", "resume"} /\ ~last.pre.tmux_session)
        => /\ last.ret = "False"
           /\ session_file = last.pre.session_file
           /\ ~tmux_session
           /\ Len(last.calls) = 1
           /\ last.calls[1].cmd[1] = "has-session"

C20_Witness ==
    /\ last.op = "pause"
    /\ ~last.pre.tmux_session
    /\ last.pre.session_file.exists
    /\ ~last.pre.session_file.malformed
    /\ last.ret = "False"

(* C21. On an existing session a second pause() right after a pause() that *)
(* returned True returns True again and leaves the record the first call   *)
(* wrote, which says paused = true; likewise a second resume() returns     *)
(* True and leaves the record of the first, which says paused = false.     *)
C21_PauseResumeIdempotent ==
    /\ (last.op = "pause" /\ last.ret = "True" /\ tmux_session) =>
          /\ PersistedPaused(session_file)
          /\ LET w == pause(World, last.self, Quiet)
             IN  w.ret = "True" /\ w.session_file = session_file
    /\ (last.op = "resume" /\ last.ret = "True" /\ tmux_session) =>
          /\ session_file.exists /\ ~PersistedPaused(session_file)
          /\ LET w == resume(World, last.self, Quiet)
             IN  w.ret = "True" /\ w.session_file = session_file

(* C22. send, force_send, read, status and attach, whatever they return    *)
(* and in whatever state they are called, leave the metadata file exactly  *)
(* as it was and issue neither new-session nor kill-session; read, status  *)
(* and attach issue no send-keys either.                                   *)
C22_NoLifecycleEffect ==
    last.op \in {"send", "force_send", "read", "status", "attach"} =>
        /\ session_file = last.pre.session_file
        /\ \A i \in DOMAIN last.calls :
              /\ last.calls[i].cmd[1] \notin {"new-session", "kill-session"}
              /\ last.op \in {"read", "status", "attach"} =>
                    last.calls[i].cmd[1] # "send-keys"

C22_Witness ==
    /\ last.op = "force_send"
    /\ last.ret = "True"
    /\ PersistedPaused(last.pre.session_file)
    /\ PersistedPaused(session_file)

(* Call i of the last operation names a tmux session other than            *)
(* session_name.                                                           *)
TargetsOtherSession(i) ==
    /\ Len(last.calls[i].cmd) >= 2
    /\ last.calls[i].cmd[2] # session_name

AllReturnedTrue ==
    \A p \in Procs : proc[p].pc = "done" /\ proc[p].ret = "True"

(* C24. When a pause and a resume of the same existing session ran         *)
(* concurrently and both have returned, the persisted paused flag is the   *)
(* one intended by whichever wrote the metadata file last: true if that    *)
(* was the pause, false if it was the resume.                              *)
C24_LastWriterWins ==
    (AllReturnedTrue /\ {proc[p].op : p \in Procs} = {"pause", "resume"})
        => /\ Len(writes) = 2
           /\ session_file.exists /\ ~session_file.malformed
           /\ Get(session_file.info, "paused", FALSE) = (writes[2].op = "pause")

(* Process p of the running processes wrote the metadata file.             *)
Wrote(p) == \E i \in DOMAIN writes : writes[i].p = p

(* C25. While the processes running are all starts: at most one of them    *)
(* has created the session; a start that returned False created nothing    *)
(* and wrote no metadata; and the only start that writes the metadata file *)
(* is the one whose new-session created the session, so the record left    *)
(* when all have returned is that one's.                                   *)
C25_OneSessionUnderConcurrentStarts ==
    (\A p \in Procs : proc[p].op = "start")
        => /\ Cardinality({p \in Procs : proc[p].created}) <= 1
           /\ \A p \in Procs :
                 /\ (proc[p].pc = "done" /\ proc[p].ret = "False") =>
                       ~proc[p].created /\ ~Wrote(p)
                 /\ Wrote(p) => proc[p].created
                 /\ (proc[p].created /\ proc[p].pc = "done") =>
                       /\ proc[p].ret = "True"
                       /\ writes = <<[p |-> p, op |-> "start"]>>
                       /\ tmux_session
                       /\ StartRecord(session_file)

C25_Witness ==
    /\ \A p \in Procs : proc[p].op = "start" /\ proc[p].pc = "done"
    /\ \E p, q \in Procs :
          /\ proc[p].created /\ proc[p].ret = "True"
          /\ ~proc[q].created /\ proc[q].ret = "False"
    /\ Len(writes) = 1

(* C26. A metadata file left by start, pause, resume or stop (called with  *)
(* no file or a readable one) is a complete record: it holds session_name, *)
(* created_at, working_dir, status and paused.                             *)
C26_MetadataRecordsComplete ==
    (last.op \in {"start", "pause", "resume", "stop"}
        /\ ~last.pre.session_file.malformed
        /\ session_file.exists)
        => /\ ~session_file.malformed
           /\ {"session_name", "created_at", "working_dir", "status", "paused"}
                 \subseteq DOMAIN session_file.info

(* C27. A stop() of an existing session that got as far as kill-session    *)
(* returns True and leaves no metadata file and no session, whether the    *)
(* kill-session call succeeded or failed (as it does when exit() has       *)
(* already ended the session).                                             *)
C27_StopIgnoresKillOutcome ==
    (last.op = "stop" /\ last.pre.tmux_session /\ Issued("kill-session"))
        => /\ last.ret = "True"
           /\ ~session_file.exists
           /\ ~tmux_session

C27_Witness ==
    /\ last.op = "stop"
    /\ last.pre.tmux_session
    /\ last.pre.session_file.exists
    /\ IssuedWith("kill-session", FALSE)
    /\ last.ret = "True"
    /\ ~session_file.exists

(* C28. pause() and resume() issue has-session and no other tmux call and  *)
(* leave the session and what its interpreter received as they were; and   *)
(* on a session whose record says paused = true, read still captures the   *)
(* pane and status still returns True.                                     *)
C28_PauseTouchesMetadataOnly ==
    /\ last.op \in {"pause", "resume"} =>
          /\ \A i \in DOMAIN last.calls : last.calls[i].cmd[1] = "has-session"
          /\ tmux_session = last.pre.tmux_session
    /\ \A self \in Inst :
          /\ pause(World, self, Quiet).scrollback = scrollback
          /\ pause(World, self, Quiet).tmux_session = tmux_session
          /\ resume(World, self, Quiet).scrollback = scrollback
          /\ resume(World, self, Quiet).tmux_session = tmux_session
    /\ (last.pre.tmux_session /\ PersistedPaused(last.pre.session_file)) =>
          /\ last.op = "read" =>
                /\ IssuedWith("capture-pane", TRUE)
                /\ last.lines >= Len(scrollback) + 2 => ShownCommands(last.out) = scrollback
          /\ last.op = "status" => last.ret = "True"

C28_Witness ==
    /\ last.op = "read"
    /\ last.pre.tmux_session
    /\ PersistedPaused(last.pre.session_file)
    /\ pause_held
    /\ scrollback # <<>>
    /\ ShownCommands(last.out) = scrollback

(* The keystrokes the send-keys calls among calls delivered, call by call. *)
KeysTyped(calls) ==
    LET sent == SelectSeq(calls, LAMBDA c : c.cmd[1] = "send-keys" /\ c.ok)
    IN  [i \in 1..Len(sent) |-> SubSeq(sent[i].cmd, 3, Len(sent[i].cmd))]

(* C29. A send that returns True has typed its command text followed by    *)
(* one Enter into the session and nothing else, in ProgressiveMLCLI.send   *)
(* and in ClaudeREPL.send alike.                                           *)
C29_SendDeliversExactlyItsCommand ==
    /\ (last.op = "send" /\ last.ret = "True") =>
          KeysTyped(last.calls) = << <<last.command, "Enter">> >>
    /\ \A command \in Commands :
          LET w == ClaudeREPL_send(World, command, Quiet)
          IN  w.ret = "True" => KeysTyped(w.calls) = << <<command, "Enter">> >>

(* The probed candidates, by position in repls, whose probe exited 0.      *)
Responding == {i \in 1..Len(repls) : repls[i].name \in Probed
                                     /\ repl.probes[repls[i].name] = "success"}

(* C30. Whatever the three probes did, _get_best_repl returns one of the   *)
(* four candidates: the first in the order ptpython, ipython, python-rich  *)
(* whose probe exited 0, with its launch command, and python with          *)
(* python3 -i when none did.                                               *)
C30_BestReplSelection ==
    repl.best # NoRepl =>
        /\ \E i \in 1..Len(repls) : repl.best = repls[i]
        /\ Responding # {} =>
              repl.best = repls[CHOOSE i \in Responding : \A j \in Responding : i <= j]
        /\ Responding = {} =>
              repl.best = [name |-> "python", cmd |-> <<"python3", "-i">>]

C30_Witness ==
    /\ repl.probes["ptpython"] = "timeout"
    /\ repl.probes["ipython"] = "nonzero"
    /\ repl.probes["python-rich"] = "success"
    /\ repl.best.name = "python-rich"

(* The set-option calls of the last operation: which option of the palette *)
(* each one set, in the order issued.                                      *)
OptionsAttempted ==
    LET opts == SelectSeq(last.calls, LAMBDA c : c.cmd[1] = "set-option")
    IN  [i \in 1..Len(opts) |-> opts[i].cmd[3]]

(* The last operation created the session session_name.                    *)
CreatedSession ==
    \E i \in DOMAIN last.calls :
        /\ last.calls[i].cmd[1] = "new-session"
        /\ last.calls[i].cmd[2] = session_name
        /\ last.calls[i].ok

(* C31. A start() that created the session issues the set-option call of   *)
(* every option of the palette, once each and in order, whichever of them  *)
(* fail, and returns True; and what start returns and the metadata file it *)
(* leaves are the same under every combination of set-option outcomes as   *)
(* when none fails.                                                        *)
C31_ColorsBestEffort ==
    /\ (last.op = "start" /\ CreatedSession) =>
          /\ OptionsAttempted = [k \in 1..NColors |-> k]
          /\ last.ret = "True"
          /\ StartRecord(session_file)
    /\ \A self \in Inst, color_fail \in ColorFailures :
          LET w == start(World, self, None, [Quiet EXCEPT !.color_fail = color_fail])
              q == start(World, self, None, Quiet)
          IN  w.ret = q.ret /\ w.session_file = q.session_file

C31_Witness ==
    /\ last.op = "start"
    /\ CreatedSession
    /\ last.ret = "True"
    /\ \E i, j \in DOMAIN last.calls :
          /\ i < j
          /\ last.calls[i].cmd[1] = "set-option" /\ ~last.calls[i].ok
          /\ last.calls[j].cmd[1] = "set-option" /\ last.calls[j].ok

(* Process p's operation made a send-keys call that tmux refused.          *)
SendKeysFailed(p) ==
    \E i \in DOMAIN proc[p].calls :
        proc[p].calls[i].cmd[1] = "send-keys" /\ ~proc[p].calls[i].ok

(* C32. A tmux invocation that exits non-zero comes back as a value: the   *)
(* statement that made it does not end in an exception. No operation       *)
(* issues again a command that has failed. A send whose send-keys call     *)
(* failed has returned False, having issued send-keys once and typed       *)
(* nothing.                                                                *)
C32_FailsSoftNeverRetries ==
    \A p \in Procs :
        /\ \A i, j \in DOMAIN proc[p].calls :
              (~proc[p].calls[i].ok /\ i < j) =>
                  proc[p].calls[j].cmd # proc[p].calls[i].cmd
        /\ (proc[p].op = "send" /\ SendKeysFailed(p)) =>
              /\ proc[p].pc = "done"
              /\ proc[p].ret = "False"
              /\ ~proc[p].delivered
              /\ Cardinality({i \in DOMAIN proc[p].calls :
                                 proc[p].calls[i].cmd[1] = "send-keys"}) = 1
        /\ proc[p].pc \notin {"idle", "done"} =>
              \A exits \in BOOLEAN :
                  LET r == Step(proc[p].op, proc[p].command, proc[p].pc, ProcWorld(p),
                                proc[p].info, [Quiet EXCEPT !.exits = exits])
                  IN  (\E i \in DOMAIN r.w.calls : ~r.w.calls[i].ok) => r.ret # "raise"

C32_Witness ==
    \E p \in Procs :
        /\ proc[p].op = "send"
        /\ SendKeysFailed(p)
        /\ proc[p].ret = "False"

(* C33. read(lines) on an existing session returns what capture-pane       *)
(* printed for the last `lines` lines of the pane, unchanged, blank lines  *)
(* at either end included.                                                 *)
C33_ReadVerbatim ==
    (last.op = "read" /\ last.pre.tmux_session /\ last.ret = "str") =>
        last.out = LastN(PaneText(scrollback), last.lines)

(* Every process has returned from its operation, or runs none.            *)
AllReturned == \A p \in Procs : proc[p].pc \in {"idle", "done"}

(* C34. When no operation is in flight, the metadata file of the session   *)
(* exists only if the tmux session does, whatever operations ran at the    *)
(* same time; a pause or resume that ran alongside a stop leaves no file   *)
(* once the stop has removed the session.                                  *)
C34_MetadataImpliesSession ==
    (AllReturned /\ session_file.exists) => tmux_session

(* C35. While a process whose pause() returned True has not been followed  *)
(* by a resume, no send of another process types its command into the      *)
(* session, a send that had already passed its checks when the pause was   *)
(* written included.                                                       *)
C35_PauseGateUnderInterleaving ==
    [][\A p, q \in Procs :
          (/\ proc[p].op = "pause" /\ proc[p].pc = "done" /\ proc[p].ret = "True"
           /\ proc[q].op = "send"
           /\ ~proc[q].delivered)
          => ~proc'[q].delivered]_vars

====
